---- MODULE Spec2Model ----
(***************************************************************************)
(* Model of the access-review classification engine of                     *)
(* role_based_analysis.py (class AccessReviewAnalyzer):                    *)
(*   load_csv -> analyze_access -> export_actionable_csv ->                *)
(*   get_summary_stats.                                                    *)
(* Spec feeds it CSV files built row by row from rows with empty cells and *)
(* '|' characters; SpecWide feeds it whole files of one team of up to      *)
(* MaxWideUsers users; SpecJobs feeds it whole files of up to MaxJobUsers   *)
(* users in three jobs and follows it to the statistics;                   *)
(* SpecClassify applies the classification of one role count to every      *)
(* group size up to MaxGroupSize and every threshold the constructor takes;*)
(* SpecCalls calls the methods of a loaded analyzer in any order.          *)
(*                                                                         *)
(* Model of the directory lookups of core/ad_client.py,                    *)
(* core/base_processor.py and the processors: SpecLookup runs a processor  *)
(* over a file of up to MaxLookupRows rows inside the context of a client  *)
(* whose connect may fail; SpecSearch makes up to MaxSearches calls of     *)
(* DatascanProcessor.search_ad_user; SpecStats applies calculate_stats to  *)
(* every list of up to MaxRecords records.                                 *)
(*                                                                         *)
(* A Python str is modelled as a sequence of atoms.  An atom is either one *)
(* of the single characters " ", ",", "|" and "@" (the characters the code *)
(* treats specially: str.strip, str.split, the '|' of the f-string keys,   *)
(* the '@' of a mail address) or a word, a maximal run of other            *)
(* characters.  No word is a prefix of another word, so two strings are    *)
(* equal exactly when their atom sequences are equal, and code-point order *)
(* is AtomRank order.                                                      *)
(***************************************************************************)
EXTENDS Integers, Sequences, FiniteSets, TLC

VARIABLES
    threshold,   \* self.threshold
    csv_rows,    \* the data rows of the CSV file, as csv.DictReader yields them
    data,        \* self.data
    analysis,    \* self.analysis
    actions,     \* the rows export_actionable_csv has written
    load_ok,     \* the value load_csv returned
    stats,       \* the dicts get_summary_stats has returned (none or one)
    sample_count,  \* SpecClassify: count of the role being classified
    sample_total,  \* SpecClassify: total_users of its group
    sample_info,   \* SpecClassify: the role_info built for it (none or one)
    connection,       \* ActiveDirectoryClient.connection: "none" or "live"
    processor,        \* the processor class in use
    csv_data,         \* the rows handed to lookup_users
    next_row,         \* index of the row the loop of lookup_users is at
    processed_users,  \* the list lookup_users builds; calculate_stats' argument
    query_log,        \* the queries the directory has received, in order
    last_result,      \* what the last direct call returned or raised (none or one)
    ad_users_cache,   \* DatascanProcessor.ad_users_cache, as a set of entries
    search_calls,     \* the calls of search_ad_user so far, with what they returned
    proc_stats,       \* the ProcessingStats calculate_stats returned (none or one)
    pc           \* position of the driver: "input", "loaded", "analyzed",
                 \* "exported", "summarized"; "classify", "classified";
                 \* "ready" and the name of the last method called; "client",
                 \* "context", "closed"; "search"; "records", "counted"

vars == <<threshold, csv_rows, data, analysis, actions, load_ok, stats,
          sample_count, sample_total, sample_info, connection, processor,
          csv_data, next_row, processed_users, query_log, last_result,
          ad_users_cache, search_calls, proc_stats, pc>>

\* the variables only SpecClassify changes
sample == <<sample_count, sample_total, sample_info>>

\* the variables of the directory lookups
directory == <<connection, processor, csv_data, next_row, processed_users,
               query_log, last_result, ad_users_cache, search_calls, proc_stats>>

\* the fields of AccessReviewAnalyzer
analyzer == <<threshold, csv_rows, data, analysis, actions, load_ok, stats>>

(***************************************************************************)
(* Bounds and input sets                                                   *)
(***************************************************************************)
MaxRows == 3

SP == " "
COMMA == ","
PIPE == "|"

Str(w) == <<w>>

NoRoles == <<"no", SP, "roles">>          \* the literal 'no roles'

Usernames == {Str("alice"), Str("bob"), Str("carol")}

\* assigned_roles cells: empty, one role, two roles, delimiter and blank only
RoleCells ==
    { <<>>,
      Str("Reader"),
      <<"Reader", COMMA, "Export">>,
      <<COMMA, SP>> }

RawRow(u, d, t, r) ==
    [username |-> u, department |-> d, title |-> t, assigned_roles |-> r]

\* rows of the group (Finance, Analyst); carol never names a role
PlainRows ==
    {RawRow(u, Str("Finance"), Str("Analyst"), r) :
        u \in Usernames \ {Str("carol")}, r \in RoleCells}
    \cup {RawRow(Str("carol"), Str("Finance"), Str("Analyst"), r) :
             r \in {<<>>, <<COMMA, SP>>}}

\* rows with a '|' inside the department, and one with it inside the title
PipeRows ==
    { RawRow(Str("alice"), <<"Finance", PIPE, "Ops">>, Str("Analyst"), Str("Reader")),
      RawRow(Str("bob"), <<"Finance", PIPE, "Ops">>, Str("Analyst"),
             <<"Reader", COMMA, "Export">>),
      RawRow(Str("bob"), Str("Finance"), <<"Ops", PIPE, "Analyst">>, Str("Reader")) }

\* the data rows a CSV file may hold
RawRows == PlainRows \cup PipeRows

Thresholds == {50, 60}

MaxWideUsers == 5

\* the i-th row of a wide file belongs to the i-th of these users
WideNames == <<"alice", "bob", "carol", "dave", "erin", "frank">>

WideCells == {Str("Reader"), Str("Export")}

\* files of up to n users, the users of one job on adjacent rows, the jobs
\* in the order of the list jobs of (department, title) pairs
FilesOf(jobs, n) ==
    UNION {{[i \in 1..k |-> RawRow(Str(WideNames[i]), jobs[job[i]][1],
                                    jobs[job[i]][2], cell[i])] :
                job \in {j \in [1..k -> 1..Len(jobs)] :
                            \A i \in 1..k : i < k => j[i] <= j[i + 1]},
                cell \in [1..k -> WideCells]} :
           k \in 0..n}

\* one team: every user has the same job
WideFiles == FilesOf(<< <<Str("Finance"), Str("Analyst")>> >>, MaxWideUsers)

MaxJobUsers == 5

\* three jobs, listed in the reverse of their (department, title) order
JobFiles ==
    FilesOf(<< <<Str("Ops"), Str("Analyst")>>,
               <<Str("Finance"), Str("Ops")>>,
               <<Str("Finance"), Str("Analyst")>> >>, MaxJobUsers)

WideThresholds == {25, 75}

JobThresholds == {50}

MaxGroupSize == 50

\* main() lets these thresholds through
ValidThresholds == 1..100

\* __init__ stores whatever threshold it is given
ClassifyThresholds == 0..101

(***************************************************************************)
(* str helpers                                                             *)
(***************************************************************************)
\* ord() of the first character of an atom
AtomRank(a) ==
    CASE a = SP        -> 32
      [] a = COMMA     -> 44
      [] a = "Analyst" -> 65
      [] a = "Export"  -> 69
      [] a = "Finance" -> 70
      [] a = "Ops"     -> 79
      [] a = "Reader"  -> 82
      [] a = "alice"   -> 97
      [] a = "bob"     -> 98
      [] a = "carol"   -> 99
      [] a = "dave"    -> 100
      [] a = "erin"    -> 101
      [] a = "frank"   -> 102
      [] a = "no"      -> 110
      [] a = "roles"   -> 114
      [] a = PIPE      -> 124

RECURSIVE StrLess(_, _)
\* Python's s < t on str
StrLess(s, t) ==
    IF t = <<>> THEN FALSE
    ELSE IF s = <<>> THEN TRUE
    ELSE IF Head(s) = Head(t) THEN StrLess(Tail(s), Tail(t))
    ELSE AtomRank(Head(s)) < AtomRank(Head(t))

RECURSIVE LStrip(_)
LStrip(s) == IF s # <<>> /\ Head(s) = SP THEN LStrip(Tail(s)) ELSE s

RECURSIVE RStrip(_)
RStrip(s) ==
    IF s # <<>> /\ s[Len(s)] = SP THEN RStrip(SubSeq(s, 1, Len(s) - 1)) ELSE s

\* str.strip()
Strip(s) == LStrip(RStrip(s))

RECURSIVE SplitFrom(_, _, _)
\* str.split(sep) continued: cur is the piece being read
SplitFrom(s, sep, cur) ==
    IF s = <<>> THEN <<cur>>
    ELSE IF Head(s) = sep THEN <<cur>> \o SplitFrom(Tail(s), sep, <<>>)
    ELSE SplitFrom(Tail(s), sep, Append(cur, Head(s)))

\* str.split(sep): always at least one piece
Split(s, sep) == SplitFrom(s, sep, <<>>)

RECURSIVE Join(_, _)
\* sep.join(list)
Join(sep, list) ==
    IF list = <<>> THEN <<>>
    ELSE IF Len(list) = 1 THEN list[1]
    ELSE list[1] \o sep \o Join(sep, Tail(list))

RECURSIVE SortedStrs(_)
\* sorted(set of str)
SortedStrs(S) ==
    IF S = {} THEN <<>>
    ELSE LET m == CHOOSE x \in S : \A y \in S \ {x} : StrLess(x, y)
         IN  <<m>> \o SortedStrs(S \ {m})

\* [r.strip() for r in s.split(',') if r.strip()]
ParseRoles(s) ==
    LET pieces == Split(s, COMMA)
        stripped == [i \in 1..Len(pieces) |-> Strip(pieces[i])]
    IN  SelectSeq(stripped, LAMBDA p : p # <<>>)

Range(seq) == {seq[i] : i \in 1..Len(seq)}

(***************************************************************************)
(* load_csv, standard DictReader path                                      *)
(***************************************************************************)
\* cleaned_row: every value stripped
CleanedRow(row) ==
    [username |-> Strip(row.username), department |-> Strip(row.department),
     title |-> Strip(row.title), assigned_roles |-> Strip(row.assigned_roles)]

\* all(cleaned_row.get(col) for col in required_columns)
RowIsValid(cr) ==
    /\ cr.username # <<>>
    /\ cr.department # <<>>
    /\ cr.title # <<>>
    /\ cr.assigned_roles # <<>>

\* raw_data
RawData(rows) ==
    SelectSeq([i \in 1..Len(rows) |-> CleanedRow(rows[i])], RowIsValid)

\* f"{row['username']}|{row['department']}|{row['title']}"
UserKey(row) == row.username \o <<PIPE>> \o row.department \o <<PIPE>> \o row.title

RECURSIVE FirstSeen(_, _)
\* the distinct values of a sequence in order of first occurrence
\* (insertion order of a dict's keys)
FirstSeen(seq, seen) ==
    IF seq = <<>> THEN <<>>
    ELSE IF Head(seq) \in seen THEN FirstSeen(Tail(seq), seen)
    ELSE <<Head(seq)>> \o FirstSeen(Tail(seq), seen \cup {Head(seq)})

\* what one raw row adds to user_roles[user_key]
RoleEntry(row) ==
    LET role == Strip(row.assigned_roles)
    IN  IF role # <<>> THEN role ELSE NoRoles

\* user_roles[key] after the loop over raw_data
UserRolesOf(raw, key) ==
    {RoleEntry(raw[i]) : i \in {j \in 1..Len(raw) : UserKey(raw[j]) = key}}

\* user_info[key]: the fields of the first row with that key
UserInfoOf(raw, key) ==
    LET i == CHOOSE j \in 1..Len(raw) :
                 /\ UserKey(raw[j]) = key
                 /\ \A k \in 1..(j - 1) : UserKey(raw[k]) # key
    IN  raw[i]

\* variant: one record per raw row, no aggregation by user key
AggregateUsersPerRow(raw) == raw

\* self.data after aggregation
AggregateUsers(raw) ==
    LET keys == FirstSeen([i \in 1..Len(raw) |-> UserKey(raw[i])], {})
    IN  [i \in 1..Len(keys) |->
            LET info == UserInfoOf(raw, keys[i])
            IN  [username |-> info.username, department |-> info.department,
                 title |-> info.title,
                 assigned_roles |->
                     Join(<<COMMA, SP>>, SortedStrs(UserRolesOf(raw, keys[i])))]]

(***************************************************************************)
(* analyze_access                                                          *)
(***************************************************************************)
\* f"{user['department']}|{user['title']}"
GroupKey(user) == user.department \o <<PIPE>> \o user.title

\* the keys of groups, in insertion order
GroupKeys(d) == FirstSeen([i \in 1..Len(d) |-> GroupKey(d[i])], {})

\* the records of self.data that the first loop files under group_key
GroupRecords(d, key) == SelectSeq(d, LAMBDA u : GroupKey(u) = key)

\* variant: the user is added to unique_users inside the loop over its roles
UniqueUsersWithRoles(d, key) ==
    {u.username : u \in {v \in Range(SelectSeq(d, LAMBDA w : GroupKey(w) = key)) :
                            ParseRoles(v.assigned_roles) # <<>>}}

\* groups[group_key]['unique_users']
UniqueUsers(d, key) == {u.username : u \in Range(GroupRecords(d, key))}

RECURSIVE RolePairs(_)
\* the (username, role) pairs in the order the nested loops visit them
RolePairs(recs) ==
    IF recs = <<>> THEN <<>>
    ELSE LET roles == ParseRoles(Head(recs).assigned_roles)
         IN  [i \in 1..Len(roles) |-> <<Head(recs).username, roles[i]>>]
                 \o RolePairs(Tail(recs))

\* groups[group_key]['user_roles'][username]
UserRoles(d, key, username) ==
    {p[2] : p \in {q \in Range(RolePairs(GroupRecords(d, key))) : q[1] = username}}

\* role_frequency[role] += 1 on an insertion-ordered dict
Increment(freq, role) ==
    IF \E i \in 1..Len(freq) : freq[i].role = role
    THEN [i \in 1..Len(freq) |->
             IF freq[i].role = role
             THEN [role |-> role, count |-> freq[i].count + 1]
             ELSE freq[i]]
    ELSE Append(freq, [role |-> role, count |-> 1])

\* variant: every occurrence of a role is counted (the behaviour before the fix)
AlreadyCountedNever(pair, seen) == FALSE

\* role not in groups[group_key]['user_roles'][username], negated
AlreadyCounted(pair, seen) == pair \in seen

RECURSIVE CountRoles(_, _, _)
\* the loop that fills user_roles and role_frequency of one group
CountRoles(pairs, seen, freq) ==
    IF pairs = <<>> THEN freq
    ELSE IF AlreadyCounted(Head(pairs), seen)
         THEN CountRoles(Tail(pairs), seen, freq)
         ELSE CountRoles(Tail(pairs), seen \cup {Head(pairs)},
                         Increment(freq, Head(pairs)[2]))

\* groups[group_key]['role_frequency'], as (role, count) in insertion order
RoleFrequency(d, key) == CountRoles(RolePairs(GroupRecords(d, key)), {}, <<>>)

RECURSIVE SplitOnce(_, _)
\* group_key.split('|', 1), given the part before the cut read so far
SplitOnce(s, before) ==
    IF s = <<>> THEN <<before>>
    ELSE IF Head(s) = PIPE THEN <<before, Tail(s)>>
    ELSE SplitOnce(Tail(s), Append(before, Head(s)))

RECURSIVE Pow2(_)
Pow2(k) == IF k = 0 THEN 1 ELSE 2 * Pow2(k - 1)

\* A Python float is an IEEE-754 double: a 53-bit significand and an exponent.
\* The significand is kept as a leading 1 and four digits of 13 bits, so
\* [ex |-> e, m |-> <<l1, l2, l3, l4>>] is (1.l1 l2 l3 l4 in base 2^13) * 2^e.
LimbBase == Pow2(13)

RECURSIVE Normalize(_, _, _)
\* scale count / total_users to a quotient in [1, 2): <<count', total', ex>>
Normalize(c, n, ex) ==
    IF c < n THEN Normalize(2 * c, n, ex - 1)
    ELSE IF c >= 2 * n THEN Normalize(c, 2 * n, ex + 1)
    ELSE <<c, n, ex>>

RECURSIVE DivDigits(_, _, _)
\* long division: k more digits of r / n, then the remainder, last
DivDigits(r, n, k) ==
    IF k = 0 THEN <<r>>
    ELSE <<(r * LimbBase) \div n>> \o DivDigits((r * LimbBase) % n, n, k - 1)

\* the significand one unit in the last place higher; the carry is returned
\* as a fifth element
IncDigits(m) ==
    LET l4 == m[4] + 1
        l3 == m[3] + (l4 \div LimbBase)
        l2 == m[2] + (l3 \div LimbBase)
        l1 == m[1] + (l2 \div LimbBase)
    IN  <<l1 % LimbBase, l2 % LimbBase, l3 % LimbBase, l4 % LimbBase,
          l1 \div LimbBase>>

\* round to nearest, ties to even: rest is what was cut off, half its midpoint
RoundFloat(ex, m, rest, half) ==
    IF rest > half \/ (rest = half /\ m[4] % 2 = 1)
    THEN LET up == IncDigits(m)
         IN  [ex |-> ex + up[5], m |-> SubSeq(up, 1, 4)]
    ELSE [ex |-> ex, m |-> m]

\* 0.0: all digits 0 under the lowest exponent
FloatZero == [ex |-> -1023, m |-> <<0, 0, 0, 0>>]

\* count / total_users (true division of two ints, count >= 0)
FloatDiv(count, total_users) ==
    IF count = 0 THEN FloatZero ELSE
    LET nz == Normalize(count, total_users, 0)
        ds == DivDigits(nz[1] - nz[2], nz[2], 4)
    IN  RoundFloat(nz[3], SubSeq(ds, 1, 4), 2 * ds[5], nz[2])

\* x * 100
FloatMul100(x) ==
    IF x = FloatZero THEN FloatZero ELSE
    LET t4 == x.m[4] * 100
        t3 == x.m[3] * 100 + (t4 \div LimbBase)
        t2 == x.m[2] * 100 + (t3 \div LimbBase)
        t1 == x.m[1] * 100 + (t2 \div LimbBase)
        top == 100 + (t1 \div LimbBase)
        d == IF top >= 128 THEN 7 ELSE 6
        s1 == (top % Pow2(d)) * LimbBase + (t1 % LimbBase)
        s2 == (s1 % Pow2(d)) * LimbBase + (t2 % LimbBase)
        s3 == (s2 % Pow2(d)) * LimbBase + (t3 % LimbBase)
        s4 == (s3 % Pow2(d)) * LimbBase + (t4 % LimbBase)
    IN  RoundFloat(x.ex + d,
                   <<s1 \div Pow2(d), s2 \div Pow2(d), s3 \div Pow2(d), s4 \div Pow2(d)>>,
                   s4 % Pow2(d), Pow2(d - 1))

\* (count / total_users) * 100
Percentage(count, total_users) == FloatMul100(FloatDiv(count, total_users))

\* the integer part of a float below 2^14
FloatFloor(p) ==
    IF p.ex < 0 THEN 0 ELSE (LimbBase + p.m[1]) \div Pow2(13 - p.ex)

\* percentage >= n, for an integer n
PctAtLeast(p, n) == FloatFloor(p) >= n

RECURSIVE DigitsLess(_, _)
DigitsLess(a, b) ==
    /\ a # <<>>
    /\ \/ Head(a) < Head(b)
       \/ Head(a) = Head(b) /\ DigitsLess(Tail(a), Tail(b))

\* p < q
PctLess(p, q) == p.ex < q.ex \/ (p.ex = q.ex /\ DigitsLess(p.m, q.m))

\* role_info
RoleInfo(role, count, total_users, thr) ==
    [role |-> role, count |-> count,
     percentage |-> Percentage(count, total_users),
     is_standard |-> PctAtLeast(Percentage(count, total_users), thr)]

RECURSIVE InsertByPctBeforeTies(_, _)
\* variant: x goes in front of the elements of equal percentage
InsertByPctBeforeTies(sorted, x) ==
    IF sorted = <<>> THEN <<x>>
    ELSE IF ~ PctLess(x.percentage, Head(sorted).percentage)
         THEN <<x>> \o sorted
         ELSE <<Head(sorted)>> \o InsertByPctBeforeTies(Tail(sorted), x)

RECURSIVE InsertByPct(_, _)
\* put x behind every element whose percentage is not smaller
InsertByPct(sorted, x) ==
    IF sorted = <<>> THEN <<x>>
    ELSE IF PctLess(Head(sorted).percentage, x.percentage)
         THEN <<x>> \o sorted
         ELSE <<Head(sorted)>> \o InsertByPct(Tail(sorted), x)

RECURSIVE SortByPct(_, _)
\* list.sort(key=percentage, reverse=True): stable, descending
SortByPct(seq, sorted) ==
    IF seq = <<>> THEN sorted
    ELSE SortByPct(Tail(seq), InsertByPct(sorted, Head(seq)))

\* next((u for u in self.data if ...), None), as a list of 0 or 1 records
FindUserRecord(d, username, department, title) ==
    LET hits == SelectSeq(d, LAMBDA u : /\ u.username = username
                                        /\ u.department = department
                                        /\ u.title = title)
    IN  IF hits = <<>> THEN <<>> ELSE <<Head(hits)>>

RECURSIVE UsersList(_, _, _, _)
\* users_list, for one iteration order of the set unique_users
UsersList(d, order, department, title) ==
    IF order = <<>> THEN <<>>
    ELSE FindUserRecord(d, Head(order), department, title)
             \o UsersList(d, Tail(order), department, title)

\* variant: the else of the is_standard test is lost, every role is filed ad hoc
GroupRolesNoElse(d, key, thr) ==
    LET parts == SplitOnce(key, <<>>)
        total_users == Cardinality(UniqueUsers(d, key))
        freq == RoleFrequency(d, key)
        role_analysis == [i \in 1..Len(freq) |->
                             RoleInfo(freq[i].role, freq[i].count, total_users, thr)]
        standard_roles == SelectSeq(role_analysis, LAMBDA r : r.is_standard)
    IN  [department |-> parts[1],
         title |-> parts[2],
         total_users |-> total_users,
         role_analysis |-> SortByPct(role_analysis, <<>>),
         standard_roles |-> SortByPct(standard_roles, <<>>),
         adhoc_roles |-> SortByPct(role_analysis, <<>>),
         has_adhoc_assignments |-> Len(role_analysis) > 0]

\* group_analysis of one group, before its member list is built
GroupRoles(d, key, thr) ==
    LET parts == SplitOnce(key, <<>>)
        department == parts[1]
        title == parts[2]
        total_users == Cardinality(UniqueUsers(d, key))
        freq == RoleFrequency(d, key)
        role_analysis == [i \in 1..Len(freq) |->
                             RoleInfo(freq[i].role, freq[i].count, total_users, thr)]
        standard_roles == SelectSeq(role_analysis, LAMBDA r : r.is_standard)
        adhoc_roles == SelectSeq(role_analysis, LAMBDA r : ~r.is_standard)
    IN  [department |-> department,
         title |-> title,
         total_users |-> total_users,
         role_analysis |-> SortByPct(role_analysis, <<>>),
         standard_roles |-> SortByPct(standard_roles, <<>>),
         adhoc_roles |-> SortByPct(adhoc_roles, <<>>),
         has_adhoc_assignments |-> Len(adhoc_roles) > 0]

\* group_analysis of one group; order is the iteration order of unique_users
GroupAnalysis(roles, d, order) ==
    [department |-> roles.department,
     title |-> roles.title,
     total_users |-> roles.total_users,
     role_analysis |-> roles.role_analysis,
     standard_roles |-> roles.standard_roles,
     adhoc_roles |-> roles.adhoc_roles,
     has_adhoc_assignments |-> roles.has_adhoc_assignments,
     users |-> UsersList(d, order, roles.department, roles.title)]

RECURSIVE AllGroupRoles(_, _, _)
\* GroupRoles of every group, in the order the groups dict holds them
AllGroupRoles(d, keys, thr) ==
    IF keys = <<>> THEN <<>>
    ELSE <<GroupRoles(d, Head(keys), thr)>> \o AllGroupRoles(d, Tail(keys), thr)

RECURSIVE AllGroupAnalyses(_, _, _)
\* the group_analysis records in the order they are appended
AllGroupAnalyses(roles, d, orders) ==
    IF roles = <<>> THEN <<>>
    ELSE <<GroupAnalysis(Head(roles), d, Head(orders))>>
             \o AllGroupAnalyses(Tail(roles), d, Tail(orders))

\* variant: the groups compared by title alone
GroupLessByTitle(a, b) == StrLess(a.title, b.title)

\* (a.department, a.title) < (b.department, b.title)
GroupLess(a, b) ==
    \/ StrLess(a.department, b.department)
    \/ a.department = b.department /\ StrLess(a.title, b.title)

RECURSIVE InsertGroup(_, _)
InsertGroup(sorted, g) ==
    IF sorted = <<>> THEN <<g>>
    ELSE IF GroupLess(g, Head(sorted))
         THEN <<g>> \o sorted
         ELSE <<Head(sorted)>> \o InsertGroup(Tail(sorted), g)

RECURSIVE SortGroups(_, _)
\* self.analysis.sort(key=(department, title)): stable, ascending
SortGroups(seq, sorted) ==
    IF seq = <<>> THEN sorted
    ELSE SortGroups(Tail(seq), InsertGroup(sorted, Head(seq)))

\* the orders in which a Python set may be iterated
SetOrders(S) ==
    {o \in [1..Cardinality(S) -> S] : \A i, j \in 1..Cardinality(S) : o[i] = o[j] => i = j}

RECURSIVE OrderChoices(_, _)
\* one iteration order of unique_users for every group
OrderChoices(d, keys) ==
    IF keys = <<>> THEN {<<>>}
    ELSE {<<o>> \o rest : o \in SetOrders(UniqueUsers(d, Head(keys))),
                          rest \in OrderChoices(d, Tail(keys))}

\* self.analysis as analyze_access leaves it
BuildAnalysis(d, thr, orders) ==
    SortGroups(AllGroupAnalyses(AllGroupRoles(d, GroupKeys(d), thr), d, orders), <<>>)

(***************************************************************************)
(* export_actionable_csv                                                   *)
(***************************************************************************)
\* role in user_roles, for user_roles parsed from user['assigned_roles']
UserHasRole(user, role) == role \in Range(ParseRoles(user.assigned_roles))

\* users_without_role: members whose username is not in users_with_role
UsersWithoutRole(group, role) ==
    LET users_with_role ==
            {u.username : u \in {v \in Range(group.users) : UserHasRole(v, role)}}
    IN  SelectSeq(group.users, LAMBDA u : u.username \notin users_with_role)

\* users_with_adhoc_role
UsersWithAdhocRole(group, role) ==
    SelectSeq(group.users, LAMBDA u : UserHasRole(u, role))

GrantRow(group, role_info, user) ==
    [action_type |-> "GRANT_ACCESS", priority |-> "HIGH",
     department |-> group.department, title |-> group.title,
     role |-> role_info.role, username |-> user.username,
     current_status |-> "MISSING_STANDARD_ROLE",
     business_justification_required |-> "NO"]

\* variant: 'MEDIUM' only above 25
ReviewPriorityAbove(role_info) ==
    IF PctLess(Percentage(1, 4), role_info.percentage) THEN "MEDIUM" ELSE "LOW"

\* 'MEDIUM' if role_info['percentage'] >= 25 else 'LOW'
ReviewPriority(role_info) ==
    IF PctAtLeast(role_info.percentage, 25) THEN "MEDIUM" ELSE "LOW"

ReviewRow(group, role_info, user) ==
    [action_type |-> "REVIEW_ACCESS", priority |-> ReviewPriority(role_info),
     department |-> group.department, title |-> group.title,
     role |-> role_info.role, username |-> user.username,
     current_status |-> "HAS_ADHOC_ROLE",
     business_justification_required |-> "YES"]

NoActionRow(group) ==
    [action_type |-> "NO_ACTION", priority |-> "INFO",
     department |-> group.department, title |-> group.title,
     role |-> Str("ALL_ROLES"), username |-> Str("N/A"),
     current_status |-> "COMPLIANT",
     business_justification_required |-> "NO"]

InvestigateRow(group) ==
    [action_type |-> "INVESTIGATE", priority |-> "MEDIUM",
     department |-> group.department, title |-> group.title,
     role |-> Str("NO_ROLES"), username |-> Str("N/A"),
     current_status |-> "NO_ROLES_DEFINED",
     business_justification_required |-> "YES"]

RECURSIVE GrantRows(_, _)
\* the loop over group['standard_roles']
GrantRows(group, roles) ==
    IF roles = <<>> THEN <<>>
    ELSE LET without == UsersWithoutRole(group, Head(roles).role)
         IN  [i \in 1..Len(without) |-> GrantRow(group, Head(roles), without[i])]
                 \o GrantRows(group, Tail(roles))

RECURSIVE ReviewRows(_, _)
\* the loop over group['adhoc_roles']
ReviewRows(group, roles) ==
    IF roles = <<>> THEN <<>>
    ELSE LET holders == UsersWithAdhocRole(group, Head(roles).role)
         IN  [i \in 1..Len(holders) |-> ReviewRow(group, Head(roles), holders[i])]
                 \o ReviewRows(group, Tail(roles))

\* variant: the 'not' before has_adhoc_assignments is lost
SummaryRowsInverted(group) ==
    IF group.has_adhoc_assignments /\ group.standard_roles # <<>>
    THEN <<NoActionRow(group)>>
    ELSE IF group.standard_roles = <<>> /\ group.adhoc_roles = <<>>
         THEN <<InvestigateRow(group)>>
         ELSE <<>>

\* variant: the elif branch is missing
SummaryRowsNoElif(group) ==
    IF ~group.has_adhoc_assignments /\ group.standard_roles # <<>>
    THEN <<NoActionRow(group)>>
    ELSE <<>>

\* the if / elif that closes the loop body
SummaryRows(group) ==
    IF ~group.has_adhoc_assignments /\ group.standard_roles # <<>>
    THEN <<NoActionRow(group)>>
    ELSE IF group.standard_roles = <<>> /\ group.adhoc_roles = <<>>
         THEN <<InvestigateRow(group)>>
         ELSE <<>>

\* the rows written for one group
GroupActions(group) ==
    GrantRows(group, group.standard_roles)
        \o ReviewRows(group, group.adhoc_roles)
        \o SummaryRows(group)

RECURSIVE AllActions(_)
\* the rows written for self.analysis
AllActions(groups) ==
    IF groups = <<>> THEN <<>>
    ELSE GroupActions(Head(groups)) \o AllActions(Tail(groups))

(***************************************************************************)
(* Actions                                                                 *)
(***************************************************************************)
\* no client, no processor: the analyzer runs alone
DirectoryIdle ==
    /\ connection = "none"
    /\ processor = "none"
    /\ csv_data = <<>>
    /\ next_row = 1
    /\ processed_users = <<>>
    /\ query_log = <<>>
    /\ last_result = <<>>
    /\ ad_users_cache = {}
    /\ search_calls = <<>>
    /\ proc_stats = <<>>

Init ==
    /\ threshold \in Thresholds
    /\ csv_rows = <<>>
    /\ data = <<>>
    /\ analysis = <<>>
    /\ actions = <<>>
    /\ load_ok = FALSE
    /\ stats = <<>>
    /\ sample_count = 0
    /\ sample_total = 0
    /\ sample_info = <<>>
    /\ pc = "input"
    /\ DirectoryIdle

\* the environment writes one more data row into the CSV file
AddRow ==
    /\ pc = "input"
    /\ Len(csv_rows) < MaxRows
    /\ \E row \in RawRows : csv_rows' = Append(csv_rows, row)
    /\ UNCHANGED <<directory, threshold, data, analysis, actions, load_ok, stats, sample, pc>>

LoadCsv ==
    /\ pc = "input"
    /\ data' = AggregateUsers(RawData(csv_rows))
    /\ load_ok' = (data' # <<>>)
    /\ pc' = "loaded"
    /\ UNCHANGED <<directory, threshold, csv_rows, analysis, actions, stats, sample>>

\* what analyze_access does to the analyzer: with no data it prints an error
\* and returns [], leaving self.analysis alone
AnalyzeAccessEffect ==
    /\ IF data = <<>>
       THEN analysis' = analysis
       ELSE \E roles \in {AllGroupRoles(data, GroupKeys(data), threshold)} :
                \E orders \in OrderChoices(data, GroupKeys(data)) :
                    analysis' = SortGroups(AllGroupAnalyses(roles, data, orders), <<>>)
    /\ UNCHANGED <<directory, threshold, csv_rows, data, actions, load_ok, stats, sample>>

AnalyzeAccess ==
    /\ pc = "loaded"
    /\ AnalyzeAccessEffect
    /\ pc' = "analyzed"

\* variant: the exporter takes each group off self.analysis as it writes it
ExportActionableCsvDraining ==
    /\ actions' = IF analysis = <<>> THEN actions ELSE AllActions(analysis)
    /\ analysis' = <<>>
    /\ UNCHANGED <<directory, threshold, csv_rows, data, load_ok, stats, sample>>

\* what export_actionable_csv does: with no analysis it returns before the
\* file is opened
ExportActionableCsvEffect ==
    /\ actions' = IF analysis = <<>> THEN actions ELSE AllActions(analysis)
    /\ UNCHANGED <<directory, threshold, csv_rows, data, analysis, load_ok, stats, sample>>

ExportActionableCsv ==
    /\ pc = "analyzed"
    /\ ExportActionableCsvEffect
    /\ pc' = "exported"

RECURSIVE Sum(_)
\* sum() of a list of ints
Sum(ns) == IF ns = <<>> THEN 0 ELSE Head(ns) + Sum(Tail(ns))

\* variant: a group counts as standard-only as soon as it has a standard role
SummaryStatsByStandardRoles(groups) ==
    IF groups = <<>> THEN <<>>
    ELSE LET total_groups == Len(groups)
             each == DOMAIN groups
             groups_with_adhoc ==
                 Sum([i \in each |-> IF groups[i].has_adhoc_assignments THEN 1 ELSE 0])
             groups_standard_only ==
                 Sum([i \in each |-> IF groups[i].standard_roles # <<>> THEN 1 ELSE 0])
         IN  [total_groups |-> total_groups,
              groups_with_adhoc |-> groups_with_adhoc,
              groups_standard_only |-> groups_standard_only,
              total_standard_roles |->
                  Sum([i \in each |-> Len(groups[i].standard_roles)]),
              total_adhoc_roles |->
                  Sum([i \in each |-> Len(groups[i].adhoc_roles)]),
              total_users |-> Sum([i \in each |-> groups[i].total_users]),
              compliance_rate |->
                  IF total_groups > 0
                  THEN Percentage(groups_standard_only, total_groups)
                  ELSE FloatZero]

\* the dict get_summary_stats returns; {} is the function with no keys
SummaryStats(groups) ==
    IF groups = <<>> THEN <<>>
    ELSE LET total_groups == Len(groups)
             each == DOMAIN groups
             groups_with_adhoc ==
                 Sum([i \in each |-> IF groups[i].has_adhoc_assignments THEN 1 ELSE 0])
         IN  [total_groups |-> total_groups,
              groups_with_adhoc |-> groups_with_adhoc,
              groups_standard_only |-> total_groups - groups_with_adhoc,
              total_standard_roles |->
                  Sum([i \in each |-> Len(groups[i].standard_roles)]),
              total_adhoc_roles |->
                  Sum([i \in each |-> Len(groups[i].adhoc_roles)]),
              total_users |-> Sum([i \in each |-> groups[i].total_users]),
              compliance_rate |->
                  IF total_groups > 0
                  THEN Percentage(total_groups - groups_with_adhoc, total_groups)
                  ELSE FloatZero]

\* what get_summary_stats does; stats keeps the dict it returned
GetSummaryStatsEffect ==
    /\ stats' = <<SummaryStats(analysis)>>
    /\ UNCHANGED <<directory, threshold, csv_rows, data, analysis, actions, load_ok, sample>>

\* the call of get_summary_stats that closes a run
GetSummaryStats ==
    /\ pc = "exported"
    /\ GetSummaryStatsEffect
    /\ pc' = "summarized"

Next == AddRow \/ LoadCsv \/ AnalyzeAccess \/ ExportActionableCsv

Spec == Init /\ [][Next]_vars

\* a whole file of one team is on disk when the run starts
InitWide ==
    /\ threshold \in WideThresholds
    /\ csv_rows \in WideFiles
    /\ data = <<>>
    /\ analysis = <<>>
    /\ actions = <<>>
    /\ load_ok = FALSE
    /\ stats = <<>>
    /\ sample_count = 0
    /\ sample_total = 0
    /\ sample_info = <<>>
    /\ pc = "input"
    /\ DirectoryIdle

NextWide == LoadCsv \/ AnalyzeAccess \/ ExportActionableCsv

SpecWide == InitWide /\ [][NextWide]_vars

\* a whole file of several jobs is on disk when the run starts
InitJobs ==
    /\ threshold \in JobThresholds
    /\ csv_rows \in JobFiles
    /\ data = <<>>
    /\ analysis = <<>>
    /\ actions = <<>>
    /\ load_ok = FALSE
    /\ stats = <<>>
    /\ sample_count = 0
    /\ sample_total = 0
    /\ sample_info = <<>>
    /\ pc = "input"
    /\ DirectoryIdle

NextJobs == LoadCsv \/ AnalyzeAccess \/ ExportActionableCsv \/ GetSummaryStats

SpecJobs == InitJobs /\ [][NextJobs]_vars

\* an analyzer constructed directly, about to classify one role of a group
InitClassify ==
    /\ threshold \in ClassifyThresholds
    /\ sample_total \in 1..MaxGroupSize
    /\ sample_count \in 1..sample_total
    /\ sample_info = <<>>
    /\ csv_rows = <<>>
    /\ data = <<>>
    /\ analysis = <<>>
    /\ actions = <<>>
    /\ load_ok = FALSE
    /\ stats = <<>>
    /\ pc = "classify"
    /\ DirectoryIdle

\* one turn of the loop over role_frequency
ClassifyRole ==
    /\ pc = "classify"
    /\ sample_info' = <<RoleInfo(Str("Reader"), sample_count, sample_total, threshold)>>
    /\ pc' = "classified"
    /\ UNCHANGED <<directory, threshold, csv_rows, data, analysis, actions, load_ok, stats,
                   sample_count, sample_total>>

NextClassify == ClassifyRole

SpecClassify == InitClassify /\ [][NextClassify]_vars

MaxCallUsers == 2

\* the files of the analyzer whose methods are called in any order
CallFiles == FilesOf(<< <<Str("Finance"), Str("Analyst")>> >>, MaxCallUsers)

\* the public methods that read the analyzer; "report" stands for
\* print_summary, print_detailed_analysis, export_csv_recommendations and
\* export_text_report
CallNames ==
    {"analyze_access", "get_summary_stats", "export_actionable_csv", "report"}

\* an analyzer that has loaded a file, before any call
InitCalls ==
    /\ threshold \in JobThresholds
    /\ csv_rows \in CallFiles
    /\ data = AggregateUsers(RawData(csv_rows))
    /\ load_ok = (data # <<>>)
    /\ analysis = <<>>
    /\ actions = <<>>
    /\ stats = <<>>
    /\ sample_count = 0
    /\ sample_total = 0
    /\ sample_info = <<>>
    /\ pc = "ready"
    /\ DirectoryIdle

\* a caller may use the methods in any order, any number of times
CanCall == pc \in {"ready"} \cup CallNames

CallAnalyzeAccess ==
    /\ CanCall
    /\ AnalyzeAccessEffect
    /\ pc' = "analyze_access"

CallGetSummaryStats ==
    /\ CanCall
    /\ GetSummaryStatsEffect
    /\ pc' = "get_summary_stats"

CallExportActionableCsv ==
    /\ CanCall
    /\ ExportActionableCsvEffect
    /\ pc' = "export_actionable_csv"

\* the print functions and the other exporters read self.analysis and write
\* to the terminal or to a file
CallReport ==
    /\ CanCall
    /\ pc' = "report"
    /\ UNCHANGED <<analyzer, sample, directory>>

NextCalls ==
    CallAnalyzeAccess \/ CallGetSummaryStats \/ CallExportActionableCsv \/ CallReport

SpecCalls == InitCalls /\ [][NextCalls]_vars

(***************************************************************************)
(* core/models.py, core/ad_client.py                                       *)
(***************************************************************************)
AT == "@"

\* the members of the enum LookupMethod
LookupMethod ==
    {"PRIMARY", "BACKUP", "DISPLAYNAME", "NAME_COMPONENTS", "EMAIL",
     "FAILED", "ERROR", "SKIPPED"}

\* the dict a query returns: entry is FALSE for {} and TRUE for the dict
\* _query_user builds from the first entry, whose fields may each be ""
AdData(entry, email, full_name, department) ==
    [entry |-> entry, email |-> email, full_name |-> full_name,
     department |-> department]

NoEntry == AdData(FALSE, <<>>, <<>>, <<>>)

\* an entry without mail, displayName and department, and one with a
\* department only
DirectoryEntries ==
    { AdData(TRUE, <<>>, <<>>, <<>>),
      AdData(TRUE, <<>>, <<>>, Str("Ops")) }

\* what the search behind a query can come to: {} when nothing is found or
\* the search fails, else the dict of the first entry
DirectoryResults == {NoEntry} \cup DirectoryEntries

\* bool(dict)
Truthy(ad_data) == ad_data.entry

\* how a call ends: by raising or by returning data
Raised == [raised |-> TRUE, data |-> NoEntry]

Returned(ad_data) == [raised |-> FALSE, data |-> ad_data]

\* variant: the connection test sits inside the try, the error becomes {}
QueryUserSwallowing(conn, found) ==
    Returned(IF conn = "none" THEN NoEntry ELSE found)

\* _query_user: ConnectionError without a connection, else what the search
\* comes to
QueryUser(conn, found) ==
    IF conn = "none" THEN Raised ELSE Returned(found)

(***************************************************************************)
(* core/base_processor.py and the processors                               *)
(***************************************************************************)
MaxLookupRows == 2

Processors == {"DefiXLOS", "DefiServicing", "GreatPlains", "DefiLOS"}

\* a row of the input CSV: the cell of the identifier column and the cell of
\* the email column
CsvRow(user_id, email) == [user_id |-> user_id, email |-> email]

\* a blank identifier; the bare prefix SFSE.; a user with a mail address; one
\* with a funding address; one with a display name; one whose email cell
\* holds the funding marker without an address
LookupRowKinds ==
    { CsvRow(<<SP>>, <<>>),
      CsvRow(<<"SFSE.">>, <<>>),
      CsvRow(Str("jdoe"), <<"jdoe", AT, "corp">>),
      CsvRow(Str("jdoe"), <<"sfs.funding", AT, "corp">>),
      CsvRow(<<"Al", SP, "Smith">>, <<>>),
      CsvRow(Str("jdoe"), <<"SFS.Funding", SP>>) }

LookupFiles == UNION {[1..k -> LookupRowKinds] : k \in 0..MaxLookupRows}

\* str.split(): the pieces between runs of blanks
SplitWhitespace(s) == SelectSeq(Split(s, SP), LAMBDA piece : piece # <<>>)

\* get_identifiers_for_lookup: <<primary, backup>>, <<>> for None
GetIdentifiersForLookup(proc, row) ==
    LET raw == Strip(row.user_id)
        email == Strip(row.email)
    IN  IF proc = "DefiServicing"
        THEN <<IF raw # <<>> /\ Head(raw) \in {"SFSE.", "SFSE"} THEN Tail(raw) ELSE raw,
               <<>>>>
        ELSE IF proc = "GreatPlains" THEN <<raw, <<>>>>
        ELSE IF proc = "DefiLOS"
        THEN <<raw,
               IF email # <<>> /\ AT \in Range(email)
               THEN Strip(Split(email, AT)[1]) ELSE <<>>>>
        ELSE <<raw, email>>

\* should_skip_row: the identifier cell is blank
ShouldSkipRow(proc, row) == Strip(row.user_id) = <<>>

\* should_use_backup
ShouldUseBackup(primary_result) ==
    IF ~Truthy(primary_result) THEN TRUE
    ELSE ~(\E field \in {"email", "full_name", "department"} :
               primary_result[field] # <<>>)

\* create_user_record; row is the index of csv_row in csv_data
UserRecord(row, username, ad_data, lookup_method) ==
    [row |-> row, username |-> username, email |-> ad_data.email,
     full_name |-> ad_data.full_name, department |-> ad_data.department,
     lookup_method |-> lookup_method]

\* one query as the directory sees it
Query(row, by, outcome) == [row |-> row, by |-> by, outcome |-> outcome]

\* what lookup_single_user gives back (no record for None) and the queries
\* it issued
Looked(users, queries) == [users |-> users, queries |-> queries]

\* variant: an exception ends the row without a record
LookupSingleUserDroppingErrors(row, primary_id, backup_id, p, b) ==
    LET q1 == <<Query(row, "samaccountname", p)>>
        q2 == <<Query(row, "email", b)>>
    IN  IF p.raised THEN Looked(<<>>, q1)
        ELSE IF Truthy(p.data) /\ ~ShouldUseBackup(p.data)
        THEN Looked(<<UserRecord(row, primary_id, p.data, "PRIMARY")>>, q1)
        ELSE IF backup_id # <<>>
        THEN IF b.raised THEN Looked(<<>>, q1 \o q2)
             ELSE IF Truthy(b.data)
             THEN Looked(<<UserRecord(row, backup_id, b.data, "BACKUP")>>, q1 \o q2)
             ELSE Looked(<<UserRecord(row, primary_id, NoEntry, "FAILED")>>, q1 \o q2)
        ELSE Looked(<<UserRecord(row, primary_id, NoEntry, "FAILED")>>, q1)

\* BaseUserProcessor.lookup_single_user; p and b are the ends of the primary
\* and of the backup query
LookupSingleUser(row, primary_id, backup_id, p, b) ==
    LET q1 == <<Query(row, "samaccountname", p)>>
        q2 == <<Query(row, "email", b)>>
        error == <<UserRecord(row, primary_id, NoEntry, "ERROR")>>
        failed == <<UserRecord(row, primary_id, NoEntry, "FAILED")>>
    IN  IF p.raised THEN Looked(error, q1)
        ELSE IF Truthy(p.data) /\ ~ShouldUseBackup(p.data)
        THEN Looked(<<UserRecord(row, primary_id, p.data, "PRIMARY")>>, q1)
        ELSE IF backup_id # <<>>
        THEN IF b.raised THEN Looked(error, q1 \o q2)
             ELSE IF Truthy(b.data)
             THEN Looked(<<UserRecord(row, backup_id, b.data, "BACKUP")>>, q1 \o q2)
             ELSE Looked(failed, q1 \o q2)
        ELSE Looked(failed, q1)

\* GreatPlainsProcessor.lookup_single_user
LookupSingleUserGreatPlains(row, primary_id, p, b) ==
    LET q1 == <<Query(row, "displayname", p)>>
        q2 == <<Query(row, "name_components", b)>>
        name_parts == SplitWhitespace(primary_id)
        error == <<UserRecord(row, primary_id, NoEntry, "ERROR")>>
        failed == <<UserRecord(row, primary_id, NoEntry, "FAILED")>>
    IN  IF p.raised THEN Looked(error, q1)
        ELSE IF Truthy(p.data)
        THEN Looked(<<UserRecord(row, primary_id, p.data, "DISPLAYNAME")>>, q1)
        ELSE IF Len(name_parts) >= 2
        THEN IF b.raised THEN Looked(error, q1 \o q2)
             ELSE IF Truthy(b.data)
             THEN Looked(<<UserRecord(row, primary_id, b.data, "NAME_COMPONENTS")>>,
                         q1 \o q2)
             ELSE Looked(failed, q1 \o q2)
        ELSE Looked(failed, q1)

\* variant: only the spelling SFS.Funding is looked for
HasSfsFundingOneSpelling(email_from_csv) ==
    \E k \in DOMAIN email_from_csv : email_from_csv[k] = "SFS.Funding"

\* 'SFS.Funding' in email_from_csv or 'sfs.funding' in email_from_csv
HasSfsFunding(email_from_csv) ==
    \E k \in DOMAIN email_from_csv :
        email_from_csv[k] = "SFS.Funding" \/ email_from_csv[k] = "sfs.funding"

\* DefiLOSProcessor.lookup_single_user
LookupSingleUserLOS(row, csv_row, primary_id, backup_id, p, b) ==
    LET q1 == <<Query(row, "samaccountname", p)>>
        q2 == <<Query(row, "email", b)>>
        error == <<UserRecord(row, primary_id, NoEntry, "ERROR")>>
        both_failed ==
            IF HasSfsFunding(Strip(csv_row.email)) THEN <<>>
            ELSE <<UserRecord(row, primary_id, NoEntry, "FAILED")>>
    IN  IF p.raised THEN Looked(error, q1)
        ELSE IF Truthy(p.data) /\ ~ShouldUseBackup(p.data)
        THEN Looked(<<UserRecord(row, primary_id, p.data, "PRIMARY")>>, q1)
        ELSE IF backup_id # <<>>
        THEN IF b.raised THEN Looked(error, q1 \o q2)
             ELSE IF Truthy(b.data)
             THEN Looked(<<UserRecord(row, backup_id, b.data, "BACKUP")>>, q1 \o q2)
             ELSE Looked(both_failed, q1 \o q2)
        ELSE Looked(both_failed, q1)

\* the lookup_single_user of the processor class
LookupSingleUserOf(proc, row, csv_row, primary_id, backup_id, p, b) ==
    IF proc = "GreatPlains" THEN LookupSingleUserGreatPlains(row, primary_id, p, b)
    ELSE IF proc = "DefiLOS"
    THEN LookupSingleUserLOS(row, csv_row, primary_id, backup_id, p, b)
    ELSE LookupSingleUser(row, primary_id, backup_id, p, b)

\* the number of records of users with one of the methods
CountMethods(users, methods) ==
    Cardinality({k \in DOMAIN users : users[k].lookup_method \in methods})

SuccessMethods == {"PRIMARY", "BACKUP", "DISPLAYNAME", "NAME_COMPONENTS", "EMAIL"}

\* calculate_stats, with the property success_rate of ProcessingStats
CalculateStats(users) ==
    [total_records |-> Len(users),
     successful_lookups |-> CountMethods(users, SuccessMethods),
     failed_lookups |-> CountMethods(users, {"FAILED"}),
     error_lookups |-> CountMethods(users, {"ERROR"}),
     lookup_method_counts |->
         [m \in {users[k].lookup_method : k \in DOMAIN users} |->
             CountMethods(users, {m})],
     success_rate |->
         IF Len(users) = 0 THEN FloatZero
         ELSE Percentage(CountMethods(users, SuccessMethods), Len(users))]

\* the analyzer is not part of a directory run
AnalyzerIdle ==
    /\ threshold = 70
    /\ csv_rows = <<>>
    /\ data = <<>>
    /\ analysis = <<>>
    /\ actions = <<>>
    /\ load_ok = FALSE
    /\ stats = <<>>
    /\ sample_count = 0
    /\ sample_total = 0
    /\ sample_info = <<>>

\* a client and a processor constructed, the rows read and filtered
InitLookup ==
    /\ AnalyzerIdle
    /\ connection = "none"
    /\ processor \in Processors
    /\ csv_data \in LookupFiles
    /\ next_row = 1
    /\ processed_users = <<>>
    /\ query_log = <<>>
    /\ last_result = <<>>
    /\ ad_users_cache = {}
    /\ search_calls = <<>>
    /\ proc_stats = <<>>
    /\ pc = "client"

\* connect(): on failure the exception is logged and self.connection stays
Connect ==
    /\ pc \in {"client", "closed"}
    /\ \E ok \in BOOLEAN : connection' = IF ok THEN "live" ELSE connection
    /\ UNCHANGED <<analyzer, sample, processor, csv_data, next_row, processed_users,
                   query_log, last_result, ad_users_cache, search_calls,
                   proc_stats, pc>>

\* disconnect()
Disconnect ==
    /\ pc \in {"client", "closed"}
    /\ connection' = "none"
    /\ UNCHANGED <<analyzer, sample, processor, csv_data, next_row, processed_users,
                   query_log, last_result, ad_users_cache, search_calls,
                   proc_stats, pc>>

\* a query made on the client directly
QueryDirect ==
    /\ pc \in {"client", "closed"}
    /\ \E found \in {AdData(TRUE, <<>>, <<>>, Str("Ops"))} :
           last_result' = <<QueryUser(connection, found)>>
    /\ UNCHANGED <<analyzer, sample, connection, processor, csv_data, next_row,
                   processed_users, query_log, ad_users_cache, search_calls,
                   proc_stats, pc>>

\* __enter__: connect() is called and its value dropped
Enter ==
    /\ pc = "client"
    /\ \E ok \in BOOLEAN : connection' = IF ok THEN "live" ELSE connection
    /\ pc' = "context"
    /\ UNCHANGED <<analyzer, sample, processor, csv_data, next_row, processed_users,
                   query_log, last_result, ad_users_cache, search_calls, proc_stats>>

\* one turn of the loop of lookup_users
LookupRow ==
    /\ pc = "context"
    /\ next_row <= Len(csv_data)
    /\ \E ids \in {GetIdentifiersForLookup(processor, csv_data[next_row])} :
           IF ShouldSkipRow(processor, csv_data[next_row]) \/ ids[1] = <<>>
           THEN UNCHANGED <<processed_users, query_log>>
           ELSE \E fp, fb \in DirectoryResults :
                    \E looked \in {LookupSingleUserOf(processor, next_row,
                                       csv_data[next_row], ids[1], ids[2],
                                       QueryUser(connection, fp),
                                       QueryUser(connection, fb))} :
                        /\ processed_users' = processed_users \o looked.users
                        /\ query_log' = query_log \o looked.queries
    /\ next_row' = next_row + 1
    /\ UNCHANGED <<analyzer, sample, connection, processor, csv_data, last_result,
                   ad_users_cache, search_calls, proc_stats, pc>>

\* process_users after the loop: calculate_stats(processed_users)
FinishRun ==
    /\ pc = "context"
    /\ next_row > Len(csv_data)
    /\ proc_stats' = <<CalculateStats(processed_users)>>
    /\ pc' = "finished"
    /\ UNCHANGED <<analyzer, sample, connection, processor, csv_data, next_row,
                   processed_users, query_log, last_result, ad_users_cache,
                   search_calls>>

\* __exit__: disconnect()
Exit ==
    /\ pc = "finished"
    /\ connection' = "none"
    /\ pc' = "closed"
    /\ UNCHANGED <<analyzer, sample, processor, csv_data, next_row, processed_users,
                   query_log, last_result, ad_users_cache, search_calls, proc_stats>>

NextLookup ==
    Connect \/ Disconnect \/ QueryDirect \/ Enter \/ LookupRow \/ FinishRun \/ Exit

SpecLookup == InitLookup /\ [][NextLookup]_vars

(***************************************************************************)
(* processors/datascan.py                                                  *)
(***************************************************************************)
MaxSearches == 3

\* display names: plain, with a doubled blank, a mail address, the address
\* after a blank, and the empty cell
SearchNames ==
    { <<"Al", SP, "Smith">>,
      <<"Al", SP, SP, "Smith">>,
      <<"jdoe", AT, "corp">>,
      <<SP, "jdoe", AT, "corp">>,
      <<>> }

\* what a search for a display name can come to
SearchResults == {NoEntry, AdData(TRUE, <<>>, <<"Al", SP, "Smith">>, <<>>)}

\* normalize_name
NormalizeName(name) ==
    IF name = <<>> THEN <<>> ELSE Join(<<SP>>, SplitWhitespace(Strip(name)))

\* the entry of ad_users_cache under key, as a list of none or one
CacheGet(cache, key) ==
    IF \E e \in cache : e.key = key
    THEN <<(CHOOSE e \in cache : e.key = key).info>>
    ELSE <<>>

\* variant: only the users that were found are kept
CacheStoreFound(cache, key, user_info) ==
    IF user_info.found
    THEN {e \in cache : e.key # key} \cup {[key |-> key, info |-> user_info]}
    ELSE cache

\* self.ad_users_cache[normalized_name] = user_info
CacheStore(cache, key, user_info) ==
    {e \in cache : e.key # key} \cup {[key |-> key, info |-> user_info]}

\* the queries one strategy issues and the result the loop sees from it: an
\* exception is logged and counts as no result
Strategy(by, outcome) ==
    [queries |-> <<[by |-> by, outcome |-> outcome]>>,
     ad_result |-> IF outcome.raised THEN NoEntry ELSE outcome.data]

\* the email strategy returns {} without a query for a name without '@'
NoQuery == [queries |-> <<>>, ad_result |-> NoEntry]

RECURSIVE RunStrategies(_)
\* the loop over search_methods: stop at the first non-empty result
RunStrategies(methods) ==
    IF methods = <<>> THEN [queries |-> <<>>, user_found |-> NoEntry]
    ELSE IF Truthy(Head(methods).ad_result)
    THEN [queries |-> Head(methods).queries, user_found |-> Head(methods).ad_result]
    ELSE LET rest == RunStrategies(Tail(methods))
         IN  [queries |-> Head(methods).queries \o rest.queries,
              user_found |-> rest.user_found]

\* search_ad_user: d, e and n are the ends of the three queries
SearchAdUser(cache, display_name, d, e, n) ==
    LET normalized_name == NormalizeName(display_name)
        cached == CacheGet(cache, normalized_name)
        search_methods ==
            << Strategy("displayname", d),
               IF AT \in Range(normalized_name) THEN Strategy("email", e) ELSE NoQuery >>
            \o (IF SP \in Range(normalized_name)
                   /\ Len(SplitWhitespace(normalized_name)) >= 2
                THEN <<Strategy("name_components", n)>> ELSE <<>>)
        ran == RunStrategies(search_methods)
        user_info == [found |-> Truthy(ran.user_found),
                      original_search_name |-> display_name,
                      normalized_search_name |-> normalized_name,
                      user |-> ran.user_found]
    IN  IF cached # <<>>
        THEN [returned |-> cached[1], queries |-> <<>>, cache |-> cache]
        ELSE [returned |-> user_info, queries |-> ran.queries,
              cache |-> CacheStore(cache, normalized_name, user_info)]

\* a client and a DatascanProcessor constructed
InitSearch ==
    /\ AnalyzerIdle
    /\ connection = "none"
    /\ processor = "Datascan"
    /\ csv_data = <<>>
    /\ next_row = 1
    /\ processed_users = <<>>
    /\ query_log = <<>>
    /\ last_result = <<>>
    /\ ad_users_cache = {}
    /\ search_calls = <<>>
    /\ proc_stats = <<>>
    /\ pc = "client"

\* one call of search_ad_user
SearchAdUserCall ==
    /\ pc = "client"
    /\ processor = "Datascan"
    /\ Len(search_calls) < MaxSearches
    /\ \E display_name \in SearchNames, fd, fe, fn \in SearchResults :
           \E s \in {SearchAdUser(ad_users_cache, display_name,
                                  QueryUser(connection, fd),
                                  QueryUser(connection, fe),
                                  QueryUser(connection, fn))} :
               /\ ad_users_cache' = s.cache
               /\ search_calls' = Append(search_calls,
                                         [name |-> display_name,
                                          returned |-> s.returned,
                                          queries |-> s.queries])
    /\ UNCHANGED <<analyzer, sample, connection, processor, csv_data, next_row,
                   processed_users, query_log, last_result, proc_stats, pc>>

NextSearch == Connect \/ Disconnect \/ SearchAdUserCall

SpecSearch == InitSearch /\ [][NextSearch]_vars

(***************************************************************************)
(* calculate_stats on its own                                              *)
(***************************************************************************)
MaxRecords == 3

\* lists of up to MaxRecords records, of any lookup method
RecordLists ==
    UNION {{[k \in 1..n |-> UserRecord(k, Str("jdoe"), NoEntry, method[k])] :
                method \in [1..n -> LookupMethod]} :
           n \in 0..MaxRecords}

\* a list of UserRecords handed to calculate_stats
InitStats ==
    /\ AnalyzerIdle
    /\ connection = "none"
    /\ processor = "DefiXLOS"
    /\ csv_data = <<>>
    /\ next_row = 1
    /\ processed_users \in RecordLists
    /\ query_log = <<>>
    /\ last_result = <<>>
    /\ ad_users_cache = {}
    /\ search_calls = <<>>
    /\ proc_stats = <<>>
    /\ pc = "records"

\* calculate_stats(processed_users)
CalculateStatsCall ==
    /\ pc = "records"
    /\ proc_stats' = <<CalculateStats(processed_users)>>
    /\ pc' = "counted"
    /\ UNCHANGED <<analyzer, sample, connection, processor, csv_data, next_row,
                   processed_users, query_log, last_result, ad_users_cache,
                   search_calls>>

NextStats == CalculateStatsCall

SpecStats == InitStats /\ [][NextStats]_vars

(***************************************************************************)
(* Vocabulary of the properties                                            *)
(***************************************************************************)
Analyzed == pc \in {"analyzed", "exported", "summarized"}
Exported == pc \in {"exported", "summarized"}

AnalysisGroups == Range(analysis)

\* the role set of a record of self.data
RoleSet(rec) == Range(ParseRoles(rec.assigned_roles))

\* the records of self.data filed under the key of group g
MembersOf(g) ==
    {u \in Range(data) :
        u.department \o <<PIPE>> \o u.title = g.department \o <<PIPE>> \o g.title}

\* the written rows of one action type that carry g's department and title
RowsOf(g, type) ==
    SelectSeq(actions, LAMBDA row : /\ row.action_type = type
                                    /\ row.department = g.department
                                    /\ row.title = g.title)

RowsOfRole(g, type, role) == SelectSeq(RowsOf(g, type), LAMBDA row : row.role = role)

DistinctUsernames(rows) ==
    \A i, j \in 1..Len(rows) : rows[i].username = rows[j].username => i = j

\* the rows of the input file, every cell stripped
InputRows == {CleanedRow(csv_rows[i]) : i \in 1..Len(csv_rows)}

Triple(row) == <<row.username, row.department, row.title>>

\* the union of the role pieces of all input rows with one triple
InputRoleUnion(rows, t) ==
    UNION {Range(ParseRoles(r.assigned_roles)) : r \in {x \in rows : Triple(x) = t}}

HasNeitherKind(g) == g.standard_roles = <<>> /\ g.adhoc_roles = <<>>

(***************************************************************************)
(* C1: for every group and every standard role of it, the GRANT_ACCESS     *)
(* rows written for that (group, role) number total_users - holder_count,  *)
(* one per group member whose role set lacks the role, each with priority  *)
(* HIGH and business_justification_required NO.                            *)
(***************************************************************************)
C1_GrantCompleteness ==
    Exported =>
        \A g \in AnalysisGroups : \A r \in Range(g.standard_roles) :
            LET rows == RowsOfRole(g, "GRANT_ACCESS", r.role)
            IN  /\ Len(rows) = g.total_users - r.count
                /\ DistinctUsernames(rows)
                /\ \A i \in 1..Len(rows) :
                      /\ rows[i].priority = "HIGH"
                      /\ rows[i].business_justification_required = "NO"
                      /\ \E u \in MembersOf(g) :
                            u.username = rows[i].username /\ r.role \notin RoleSet(u)

(***************************************************************************)
(* C2: for every group and every ad-hoc role of it, the REVIEW_ACCESS rows *)
(* written for that (group, role) number the role's holder_count, one per  *)
(* group member whose role set contains the role.                          *)
(***************************************************************************)
C2_ReviewCompleteness ==
    Exported =>
        \A g \in AnalysisGroups : \A r \in Range(g.adhoc_roles) :
            LET rows == RowsOfRole(g, "REVIEW_ACCESS", r.role)
            IN  /\ Len(rows) = r.count
                /\ DistinctUsernames(rows)
                /\ \A i \in 1..Len(rows) :
                      \E u \in MembersOf(g) :
                          u.username = rows[i].username /\ r.role \in RoleSet(u)

C4_NoRolesSentinel ==
    pc # "input" =>
        \A t \in {Triple(r) : r \in InputRows} :
            InputRoleUnion(InputRows, t) = {} =>
                \E u \in Range(data) : Triple(u) = t /\ RoleSet(u) = {NoRoles}

ExampleRows ==
    << RawRow(Str("alice"), Str("Finance"), Str("Analyst"), Str("Reader")),
       RawRow(Str("bob"), Str("Finance"), Str("Analyst"), <<"Reader", COMMA, "Export">>),
       RawRow(Str("carol"), Str("Finance"), Str("Analyst"), <<>>) >>

C6_ExampleScenario ==
    (Exported /\ threshold = 60 /\ csv_rows = ExampleRows) =>
        /\ Len(analysis) = 1
        /\ analysis[1].total_users = 3
        /\ {r.role : r \in Range(analysis[1].standard_roles)} = {Str("Reader")}
        /\ {r.role : r \in Range(analysis[1].adhoc_roles)} = {Str("Export"), NoRoles}
        /\ Len(actions) = 3
        /\ {<<row.action_type, row.role, row.username>> : row \in Range(actions)} =
              { <<"GRANT_ACCESS", Str("Reader"), Str("carol")>>,
                <<"REVIEW_ACCESS", Str("Export"), Str("bob")>>,
                <<"REVIEW_ACCESS", NoRoles, Str("carol")>> }

(***************************************************************************)
(* C7: after load_csv, self.data holds exactly one record per distinct     *)
(* (username, department, title) triple of the accepted rows, its roles    *)
(* the union of the roles of the rows with that triple; rows with          *)
(* different triples are never merged, whatever characters the fields hold.*)
(***************************************************************************)
C7_OneRecordPerTriple ==
    pc # "input" =>
        LET accepted == Range(RawData(csv_rows))
            triples == {Triple(r) : r \in accepted}
        IN  /\ Len(data) = Cardinality(triples)
            /\ \A t \in triples :
                  \E i \in 1..Len(data) :
                      /\ Triple(data[i]) = t
                      /\ RoleSet(data[i]) = InputRoleUnion(accepted, t)
                      /\ \A j \in 1..Len(data) : Triple(data[j]) = t => j = i

(***************************************************************************)
(* C8: in every group of every analysis result total_users > 0 and every   *)
(* counted role r has 0 <= role_counts[r] <= total_users, so no percentage *)
(* divides by zero or exceeds 100.                                         *)
(***************************************************************************)
C8_GroupSizeInvariant ==
    Analyzed =>
        \A g \in AnalysisGroups :
            /\ g.total_users > 0
            /\ \A r \in Range(g.role_analysis) :
                  /\ 0 <= r.count
                  /\ r.count <= g.total_users
                  /\ ~ PctLess(Percentage(1, 1), r.percentage)

\* a group of several users with one role held by all and one held by some
C8_Witness ==
    /\ Analyzed
    /\ \E g \in AnalysisGroups :
          /\ g.total_users >= 2
          /\ \E r \in Range(g.role_analysis) : r.count = g.total_users
          /\ \E r \in Range(g.role_analysis) : 0 < r.count /\ r.count < g.total_users

(***************************************************************************)
(* C9: for every group and role, the role's count is the number of         *)
(* distinct users filed under the group whose role set contains the role;  *)
(* a role that reaches one user several times is counted once for him.     *)
(***************************************************************************)
C9_UniqueUserCount ==
    Analyzed =>
        \A g \in AnalysisGroups :
            /\ \A r \in Range(g.role_analysis) :
                  r.count = Cardinality({u.username : u \in {v \in MembersOf(g) :
                                                                r.role \in RoleSet(v)}})
            /\ \A u \in MembersOf(g) : \A role \in RoleSet(u) :
                  Cardinality({i \in 1..Len(g.role_analysis) :
                                  g.role_analysis[i].role = role}) = 1

\* a user whose record names one role twice, counted once
C9_Witness ==
    /\ Analyzed
    /\ \E g \in AnalysisGroups : \E u \in MembersOf(g) :
          LET roles == ParseRoles(u.assigned_roles)
          IN  \E i, j \in 1..Len(roles) :
                 /\ i < j
                 /\ roles[i] = roles[j]
                 /\ \E r \in Range(g.role_analysis) : r.role = roles[i] /\ r.count = 1

(***************************************************************************)
(* C10: for every group, total_users is the number of distinct usernames   *)
(* that appear in the input rows with that (department, title), however    *)
(* many rows or roles each user has.                                       *)
(***************************************************************************)
C10_TotalUsersIsDistinctUsernames ==
    Analyzed =>
        LET pairs == {<<r.department, r.title>> : r \in InputRows}
            usernames(p) == {r.username : r \in {x \in InputRows :
                                                    <<x.department, x.title>> = p}}
        IN  /\ \A g \in AnalysisGroups : <<g.department, g.title>> \in pairs
            /\ \A p \in pairs :
                  \E g \in AnalysisGroups :
                      /\ <<g.department, g.title>> = p
                      /\ g.total_users = Cardinality(usernames(p))

(***************************************************************************)
(* C11: for every threshold t in 1..100 a role held by c of the n users of *)
(* a group is standard exactly when 100 * c >= t * n; a role at exactly t  *)
(* percent is standard.                                                    *)
(***************************************************************************)
C11_StandardIffAtLeastThreshold ==
    pc = "classified" /\ threshold \in ValidThresholds =>
        (sample_info[1].is_standard <=> 100 * sample_count >= threshold * sample_total)

(***************************************************************************)
(* C12: the role set analyze_access attributes to a user (user_roles of    *)
(* the user's group) is the union, over all input rows with the user's     *)
(* (username, department, title) triple, of the trimmed non-empty          *)
(* comma-separated pieces of assigned_roles.                               *)
(***************************************************************************)
C12_AttributedRolesAreUnion ==
    Analyzed =>
        \A row \in InputRows :
            UserRoles(data, GroupKey(row), row.username)
                = InputRoleUnion(InputRows, Triple(row))

(***************************************************************************)
(* C13: a file in which rows are repeated gives the same per-user role     *)
(* sets, and the same total_users and role counts in every group, as the   *)
(* file with every distinct row fed once.  (A file without repeated rows   *)
(* is that file.)                                                          *)
(***************************************************************************)
Loaded == pc \in {"loaded", "analyzed", "exported", "summarized"}

\* self.data for the file with its repeated rows removed
FedOnce == AggregateUsers(RawData(FirstSeen(csv_rows, {})))

UserRoleSets(d) == [i \in 1..Len(d) |-> <<Triple(d[i]), RoleSet(d[i])>>]

GroupCounts(groups) ==
    [i \in 1..Len(groups) |->
        [department |-> groups[i].department,
         title |-> groups[i].title,
         total_users |-> groups[i].total_users,
         counts |-> {<<r.role, r.count>> : r \in Range(groups[i].role_analysis)}]]

C13_RepeatedRowsIdempotent ==
    (Loaded /\ Len(FirstSeen(csv_rows, {})) < Len(csv_rows)) =>
        \A once \in {FedOnce} :
            /\ UserRoleSets(data) = UserRoleSets(once)
            /\ Analyzed =>
                  GroupCounts(analysis)
                      = GroupCounts(SortGroups(AllGroupRoles(once, GroupKeys(once),
                                                             threshold), <<>>))

\* a file that holds an accepted row twice, analyzed
C13_Witness ==
    /\ Analyzed
    /\ analysis # <<>>
    /\ \E i, j \in 1..Len(csv_rows) :
          /\ i < j
          /\ csv_rows[i] = csv_rows[j]
          /\ RowIsValid(CleanedRow(csv_rows[i]))

(***************************************************************************)
(* C14: two runs on the same input and threshold give the same output:     *)
(* whatever analysis and remediation rows a run has produced, every other  *)
(* run of the same file (every iteration order of the unique_users sets)   *)
(* produces the same groups, role lists, member lists and rows, in the     *)
(* same order.                                                             *)
(***************************************************************************)
C14_Deterministic ==
    (Analyzed /\ data # <<>>) =>
        \A orders \in OrderChoices(data, GroupKeys(data)) :
            \A other \in {BuildAnalysis(data, threshold, orders)} :
                /\ analysis = other
                /\ Exported => actions = AllActions(other)

(***************************************************************************)
(* C15: the remediation rows are grouped by department, then by title,     *)
(* both ascending; the rows of one group are its GRANT_ACCESS rows, then   *)
(* its REVIEW_ACCESS rows, then its summary row (NO_ACTION or INVESTIGATE).*)
(***************************************************************************)
\* position of an action type inside the rows of one group
KindRank(row) ==
    CASE row.action_type = "GRANT_ACCESS" -> 1
      [] row.action_type = "REVIEW_ACCESS" -> 2
      [] OTHER -> 3

SameGroup(a, b) == a.department = b.department /\ a.title = b.title

\* row a belongs to an earlier group than row b
EarlierGroup(a, b) ==
    \/ StrLess(a.department, b.department)
    \/ a.department = b.department /\ StrLess(a.title, b.title)

C15_RowOrder ==
    Exported =>
        \A i, j \in 1..Len(actions) :
            i < j =>
                /\ EarlierGroup(actions[i], actions[j]) \/ SameGroup(actions[i], actions[j])
                /\ SameGroup(actions[i], actions[j])
                      => KindRank(actions[i]) <= KindRank(actions[j])

\* three groups, read in another order than they are written; one of them
\* has GRANT_ACCESS rows and then REVIEW_ACCESS rows, another a summary row
C15_Witness ==
    /\ Exported
    /\ Len(analysis) = 3
    /\ GroupKeys(data) # [i \in 1..3 |-> GroupKey(analysis[i])]
    /\ \E i, j \in 1..Len(actions) :
          /\ i < j
          /\ SameGroup(actions[i], actions[j])
          /\ actions[i].action_type = "GRANT_ACCESS"
          /\ actions[j].action_type = "REVIEW_ACCESS"
    /\ \E g \in AnalysisGroups : RowsOf(g, "NO_ACTION") # <<>>

(***************************************************************************)
(* C16: in every group standard_roles and adhoc_roles are each sorted by   *)
(* percentage, highest first, and roles of equal percentage keep the order *)
(* in which the group first met them.                                      *)
(***************************************************************************)
\* the roles of group g in the order its records first name them
EncounterOrder(g) ==
    FirstSeen([i \in 1..Len(RolePairs(GroupRecords(data, GroupKey(g)))) |->
                  RolePairs(GroupRecords(data, GroupKey(g)))[i][2]], {})

\* list is sorted by share of the group, ties in the order of met
SortedByShare(list, met) ==
    \A i, j \in 1..Len(list) :
        i < j =>
            /\ list[i].count >= list[j].count
            /\ list[i].count = list[j].count =>
                  \E a, b \in 1..Len(met) :
                      a < b /\ met[a] = list[i].role /\ met[b] = list[j].role

C16_RoleListsSorted ==
    Analyzed =>
        \A g \in AnalysisGroups :
            \A met \in {EncounterOrder(g)} :
                /\ SortedByShare(g.standard_roles, met)
                /\ SortedByShare(g.adhoc_roles, met)

\* a list of two roles in which the role met second comes first
C16_Witness ==
    /\ Analyzed
    /\ \E g \in AnalysisGroups :
          \E list \in {g.standard_roles, g.adhoc_roles} :
              /\ Len(list) = 2
              /\ list[1].count > list[2].count
              /\ EncounterOrder(g) = <<list[2].role, list[1].role>>

(***************************************************************************)
(* C17: every REVIEW_ACCESS row has priority MEDIUM when the share of its  *)
(* ad-hoc role in the group is at least 25 percent (exactly 25 included)   *)
(* and LOW otherwise, and has business_justification_required YES.         *)
(***************************************************************************)
C17_ReviewPriority ==
    Exported =>
        \A k \in 1..Len(actions) :
            actions[k].action_type = "REVIEW_ACCESS" =>
                /\ actions[k].business_justification_required = "YES"
                /\ \E g \in AnalysisGroups :
                      /\ SameGroup(g, actions[k])
                      /\ \E r \in Range(g.adhoc_roles) :
                            /\ r.role = actions[k].role
                            /\ actions[k].priority =
                                  IF 100 * r.count >= 25 * g.total_users
                                  THEN "MEDIUM" ELSE "LOW"

\* a REVIEW_ACCESS row for a role held by exactly a quarter of the group
C17_Witness ==
    /\ Exported
    /\ \E k \in 1..Len(actions) : \E g \in AnalysisGroups :
          \E r \in Range(g.adhoc_roles) :
              /\ actions[k].action_type = "REVIEW_ACCESS"
              /\ SameGroup(g, actions[k])
              /\ r.role = actions[k].role
              /\ 4 * r.count = g.total_users
              /\ actions[k].priority = "MEDIUM"

(***************************************************************************)
(* C18: the engine never classifies with a degenerate threshold: when a    *)
(* role has been classified, the threshold was in 1..100, or the result is *)
(* the one of the threshold clamped into 1..100.                           *)
(***************************************************************************)
ClampedThreshold ==
    IF threshold < 1 THEN 1 ELSE IF threshold > 100 THEN 100 ELSE threshold

C18_NoDegenerateThreshold ==
    pc = "classified" =>
        \/ threshold \in ValidThresholds
        \/ sample_info[1].is_standard
               = PctAtLeast(sample_info[1].percentage, ClampedThreshold)

(***************************************************************************)
(* C19: for an input without valid records the analysis is the empty list  *)
(* and get_summary_stats returns every statistic, each of them 0,          *)
(* compliance_rate included.                                               *)
(***************************************************************************)
StatKeys ==
    {"total_groups", "groups_with_adhoc", "groups_standard_only",
     "total_standard_roles", "total_adhoc_roles", "total_users", "compliance_rate"}

C19_EmptyInputZeroStats ==
    (pc = "summarized" /\ data = <<>>) =>
        /\ analysis = <<>>
        /\ DOMAIN stats[1] = StatKeys
        /\ \A k \in StatKeys \ {"compliance_rate"} : stats[1][k] = 0
        /\ stats[1]["compliance_rate"] = FloatZero

(***************************************************************************)
(* C20: an input with zero valid records is a run without error: load_csv  *)
(* succeeds, the analysis has no group, no remediation row is written, and *)
(* the closing summary step finds the statistic it reads.                  *)
(***************************************************************************)
C20_EmptyInputIsValidRun ==
    (Loaded /\ data = <<>>) =>
        /\ load_ok
        /\ Analyzed => analysis = <<>>
        /\ Exported => actions = <<>>
        /\ pc = "summarized" => "groups_with_adhoc" \in DOMAIN stats[1]

(***************************************************************************)
(* C21: the statistics get_summary_stats returns for an analysis satisfy   *)
(* groups_standard_only + groups_with_adhoc = total_groups, where          *)
(* groups_with_adhoc is the number of groups with at least one ad-hoc      *)
(* role, and compliance_rate = groups_standard_only / total_groups * 100.  *)
(***************************************************************************)
AdhocGroupCount ==
    Cardinality({i \in DOMAIN analysis : analysis[i].adhoc_roles # <<>>})

C21_SummaryConsistent ==
    (pc = "summarized" /\ analysis # <<>>) =>
        \A s \in {stats[1]} :
            /\ s.total_groups = Len(analysis)
            /\ s.groups_with_adhoc = AdhocGroupCount
            /\ s.groups_standard_only + s.groups_with_adhoc = s.total_groups
            /\ s.compliance_rate
                   = FloatMul100(FloatDiv(s.groups_standard_only, s.total_groups))

C21_Witness ==
    /\ pc = "summarized"
    /\ Len(analysis) >= 3
    /\ AdhocGroupCount > 0
    /\ AdhocGroupCount < Len(analysis)
    /\ \E g \in AnalysisGroups : g.standard_roles # <<>> /\ g.adhoc_roles # <<>>

(***************************************************************************)
(* C24: in every group of the analysis the member list users holds exactly *)
(* total_users records, one for each distinct username of the group, each  *)
(* carrying the group's department and title, whatever characters the      *)
(* department and the title contain.                                       *)
(***************************************************************************)
C24_MemberList ==
    Analyzed =>
        \A g \in AnalysisGroups :
            /\ Len(g.users) = g.total_users
            /\ DistinctUsernames(g.users)
            /\ {g.users[i].username : i \in DOMAIN g.users}
                   = {u.username : u \in MembersOf(g)}
            /\ \A i \in DOMAIN g.users : /\ g.users[i].department = g.department
                                         /\ g.users[i].title = g.title

(***************************************************************************)
(* C25: in every group each role somebody holds appears in exactly one of  *)
(* standard_roles and adhoc_roles, in standard_roles iff its is_standard   *)
(* is true; role_analysis is the union of the two lists with no role       *)
(* listed twice; has_adhoc_assignments is true exactly when adhoc_roles is *)
(* not empty.                                                              *)
(***************************************************************************)
RoleNames(list) == {list[i].role : i \in DOMAIN list}

HeldRoles(g) == UNION {RoleSet(u) : u \in MembersOf(g)}

C25_RolePartition ==
    Analyzed =>
        \A g \in AnalysisGroups :
            /\ RoleNames(g.role_analysis) = HeldRoles(g)
            /\ \A i, j \in DOMAIN g.role_analysis :
                   g.role_analysis[i].role = g.role_analysis[j].role => i = j
            /\ \A r \in Range(g.role_analysis) :
                   /\ r.count > 0
                   /\ (r \in Range(g.standard_roles)) = r.is_standard
                   /\ (r \in Range(g.adhoc_roles)) = ~r.is_standard
            /\ Range(g.role_analysis) = Range(g.standard_roles) \cup Range(g.adhoc_roles)
            /\ Len(g.role_analysis) = Len(g.standard_roles) + Len(g.adhoc_roles)
            /\ g.has_adhoc_assignments = (g.adhoc_roles # <<>>)

C25_Witness ==
    /\ Analyzed
    /\ \E g \in AnalysisGroups :
           /\ g.total_users >= 3
           /\ Len(g.standard_roles) = 1
           /\ Len(g.adhoc_roles) = 1
           /\ g.standard_roles # g.adhoc_roles
           /\ g.has_adhoc_assignments

(***************************************************************************)
(* C23: no stage changes an earlier stage's output: a call of              *)
(* analyze_access leaves self.data as it was, and a call of                *)
(* get_summary_stats, of a print function or of an exporter leaves both    *)
(* self.data and self.analysis as they were, in whatever order and however *)
(* often the methods are called.                                           *)
(***************************************************************************)
C23_StagesKeepEarlierOutput ==
    [][/\ pc' = "analyze_access" => data' = data
       /\ pc' \in CallNames \ {"analyze_access"} =>
              /\ data' = data
              /\ analysis' = analysis]_vars

\* an exporter has run on an analysis that was rebuilt after an earlier export
C23_Witness ==
    /\ pc = "export_actionable_csv"
    /\ data # <<>>
    /\ analysis # <<>>
    /\ stats # <<>>
    /\ \E g \in AnalysisGroups : Len(g.users) = 2 /\ g.users[1] # data[1]

(***************************************************************************)
(* Vocabulary of the directory lookups                                     *)
(***************************************************************************)
InRun == pc \in {"context", "finished", "closed"}

\* the queries the directory received for row i, in order
RowQueries(i) == SelectSeq(query_log, LAMBDA q : q.row = i)

\* the records made for row i
RowRecords(i) == {k \in DOMAIN processed_users : processed_users[k].row = i}

\* at least one of email, full_name, department is populated
Meaningful(d) == d.email # <<>> \/ d.full_name # <<>> \/ d.department # <<>>

\* a result that is non-empty and meaningful
Usable(outcome) ==
    /\ ~outcome.raised
    /\ outcome.data.entry
    /\ Meaningful(outcome.data)

\* the row is not skipped and has a primary identifier
Eligible(i) ==
    /\ ~ShouldSkipRow(processor, csv_data[i])
    /\ GetIdentifiersForLookup(processor, csv_data[i])[1] # <<>>

EligibleRows(n) == SelectSeq([i \in 1..n |-> i], Eligible)

(***************************************************************************)
(* C22: the lookup of BaseUserProcessor queries the primary identifier     *)
(* first and the backup identifier only when the primary result is empty   *)
(* or not meaningful; it reports PRIMARY or BACKUP only for a result that  *)
(* is non-empty and has at least one of email, full_name and department    *)
(* populated, and FAILED otherwise.                                        *)
(***************************************************************************)
C22_FoundOnlyIfMeaningful ==
    (InRun /\ processor \in {"DefiXLOS", "DefiServicing"}) =>
        \A k \in DOMAIN processed_users :
            \A u \in {processed_users[k]} :
                \A qs \in {RowQueries(u.row)} :
                    /\ Len(qs) \in {1, 2}
                    /\ qs[1].by = "samaccountname"
                    /\ Len(qs) = 2 => /\ qs[2].by = "email"
                                      /\ ~qs[1].outcome.raised
                                      /\ ~Usable(qs[1].outcome)
                    /\ u.lookup_method = "PRIMARY" => Usable(qs[1].outcome)
                    /\ u.lookup_method = "BACKUP" => Len(qs) = 2 /\ Usable(qs[2].outcome)
                    /\ u.lookup_method \in {"PRIMARY", "BACKUP"} => Meaningful(u)
                    /\ (\A j \in DOMAIN qs : /\ ~qs[j].outcome.raised
                                             /\ ~Usable(qs[j].outcome))
                           => u.lookup_method = "FAILED"

(***************************************************************************)
(* C26: in lookup_users of BaseUserProcessor, GreatPlainsProcessor,        *)
(* DefiServicingProcessor and DefiXLOSProcessor every row that is not      *)
(* skipped and has a primary identifier yields exactly one UserRecord, the *)
(* records in the order of the rows; when a directory query raises for a   *)
(* row its record has the method ERROR and the rows after it are still     *)
(* looked up.                                                              *)
(***************************************************************************)
C26_OneRecordPerRow ==
    (InRun /\ processor # "DefiLOS") =>
        /\ [k \in DOMAIN processed_users |-> processed_users[k].row]
               = EligibleRows(next_row - 1)
        /\ \A k \in DOMAIN processed_users :
               (\E q \in Range(query_log) :
                    q.row = processed_users[k].row /\ q.outcome.raised)
                   => processed_users[k].lookup_method = "ERROR"

\* both rows of a file met a client without connection
C26_Witness ==
    /\ pc = "closed"
    /\ processor = "DefiXLOS"
    /\ Len(csv_data) = 2
    /\ Len(processed_users) = 2
    /\ processed_users[1].row = 1
    /\ processed_users[2].row = 2
    /\ \A k \in 1..2 : processed_users[k].lookup_method = "ERROR"
    /\ \A j \in DOMAIN query_log : query_log[j].outcome.raised

(***************************************************************************)
(* C27: a directory query made while the client has no connection raises   *)
(* ConnectionError and returns no user result; a context entered by a      *)
(* client whose connect fails is entered all the same, with the client     *)
(* unconnected, and every row looked up in it is recorded as ERROR; after  *)
(* the context is left the client has no connection.                       *)
(***************************************************************************)
C27_NoConnectionNoResult ==
    [][/\ connection = "none" =>
              /\ last_result' # last_result => last_result' = <<Raised>>
              /\ \A j \in (Len(query_log) + 1)..Len(query_log') :
                     query_log'[j].outcome.raised
              /\ \A k \in (Len(processed_users) + 1)..Len(processed_users') :
                     processed_users'[k].lookup_method = "ERROR"
              /\ Len(query_log') > Len(query_log) =>
                     Len(processed_users') = Len(processed_users) + 1
       /\ (pc = "finished" /\ pc' = "closed") => connection' = "none"]_vars

\* a run inside a context whose connect failed, and a query after it
C27_Witness ==
    /\ pc = "closed"
    /\ connection = "none"
    /\ last_result = <<Raised>>
    /\ Len(processed_users) = 2
    /\ \A k \in 1..2 : processed_users[k].lookup_method = "ERROR"
    /\ proc_stats # <<>>
    /\ proc_stats[1].error_lookups = 2

(***************************************************************************)
(* C28: in DefiLOSProcessor a row that is not skipped yields no UserRecord *)
(* only when the primary and the backup lookup both found nothing and the  *)
(* email of the row contains SFS.Funding or sfs.funding; every other such  *)
(* row yields exactly one record, with the method PRIMARY, BACKUP, FAILED  *)
(* or ERROR; a row without record is counted in none of the statistics.    *)
(***************************************************************************)
FoundNothing(i) ==
    \A q \in Range(RowQueries(i)) :
        /\ ~q.outcome.raised
        /\ \/ ~q.outcome.data.entry
           \/ q.by = "samaccountname" /\ ~Meaningful(q.outcome.data)

FundingRow(i) ==
    \E k \in DOMAIN csv_data[i].email :
        csv_data[i].email[k] \in {"SFS.Funding", "sfs.funding"}

Dropped(i) == Eligible(i) /\ RowRecords(i) = {}

C28_OnlyFundingRowsDropped ==
    (InRun /\ processor = "DefiLOS") =>
        /\ \A i \in 1..(next_row - 1) :
               Eligible(i) =>
                   /\ Cardinality(RowRecords(i))
                          = IF FoundNothing(i) /\ FundingRow(i) THEN 0 ELSE 1
                   /\ \A k \in RowRecords(i) :
                          processed_users[k].lookup_method
                              \in {"PRIMARY", "BACKUP", "FAILED", "ERROR"}
        /\ proc_stats # <<>> =>
               \A s \in {proc_stats[1]} :
                   /\ s.total_records
                          = Cardinality({i \in DOMAIN csv_data :
                                            Eligible(i) /\ ~Dropped(i)})
                   /\ s.successful_lookups + s.failed_lookups + s.error_lookups
                          = s.total_records

\* one funding row was dropped after two queries, the other row was kept
C28_Witness ==
    /\ pc = "closed"
    /\ processor = "DefiLOS"
    /\ Len(csv_data) = 2
    /\ \E i \in 1..2 : Dropped(i) /\ Len(RowQueries(i)) = 2
    /\ Len(processed_users) = 1
    /\ proc_stats[1].total_records = 1

(***************************************************************************)
(* C29: search_ad_user runs its chain of strategies (the display name,     *)
(* then the email only for a name with '@', then given name and surname    *)
(* only for a name with a blank, stopping at the first non-empty result)   *)
(* at most once for each normalized name: a later call whose name          *)
(* normalizes to the same string issues no query and returns what the      *)
(* first call returned, whether the user was found or not.                 *)
(***************************************************************************)
\* the calls before the k-th whose name normalizes as the k-th's does
EarlierSame(k) ==
    {j \in 1..(k - 1) :
        NormalizeName(search_calls[j].name) = NormalizeName(search_calls[k].name)}

StrategyRank(by) ==
    IF by = "displayname" THEN 1 ELSE IF by = "email" THEN 2 ELSE 3

\* the queries of a call are one run of the chain for name
IsChain(queries, name, returned) ==
    /\ queries # <<>>
    /\ queries[1].by = "displayname"
    /\ \A j \in 1..(Len(queries) - 1) :
           /\ StrategyRank(queries[j].by) < StrategyRank(queries[j + 1].by)
           /\ queries[j].outcome.raised \/ ~queries[j].outcome.data.entry
    /\ \A j \in DOMAIN queries :
           /\ queries[j].by = "email" => AT \in Range(name)
           /\ queries[j].by = "name_components" => SP \in Range(Strip(name))
    /\ returned.found
           = (/\ ~queries[Len(queries)].outcome.raised
              /\ queries[Len(queries)].outcome.data.entry)

C29_ChainOncePerName ==
    \A k \in DOMAIN search_calls :
        \A call \in {search_calls[k]} :
            IF EarlierSame(k) = {}
            THEN IsChain(call.queries, call.name, call.returned)
            ELSE /\ call.queries = <<>>
                 /\ \A j \in EarlierSame(k) : call.returned = search_calls[j].returned

\* a name not found without connection is asked for again, spelled with two
\* blanks, once the client is connected
C29_Witness ==
    /\ connection = "live"
    /\ Len(search_calls) = 3
    /\ search_calls[1].name = <<"Al", SP, "Smith">>
    /\ ~search_calls[1].returned.found
    /\ Len(search_calls[1].queries) = 2
    /\ search_calls[2].name = <<"Al", SP, SP, "Smith">>
    /\ search_calls[2].queries = <<>>
    /\ search_calls[3].returned.found
    /\ Cardinality(ad_users_cache) = 2

(***************************************************************************)
(* C30: for every list of processed users calculate_stats returns          *)
(* total_records equal to the length of the list, successful_lookups +     *)
(* failed_lookups + error_lookups equal to total_records, and              *)
(* lookup_method_counts summing to total_records; success_rate is 0.0      *)
(* when total_records is 0.                                                *)
(***************************************************************************)
MethodOrder ==
    <<"PRIMARY", "BACKUP", "DISPLAYNAME", "NAME_COMPONENTS", "EMAIL",
      "FAILED", "ERROR", "SKIPPED">>

CountsTotal(counts) ==
    Sum([k \in DOMAIN MethodOrder |->
            IF MethodOrder[k] \in DOMAIN counts THEN counts[MethodOrder[k]] ELSE 0])

====
